---- MODULE Spec2Model ----
(***************************************************************************)
(* Model of the OCR batch processors of this repository:                   *)
(*   src/main.py        OCRProcessor        (plain-text engine, Tesseract) *)
(*   src/paddle_ocr.py  PaddleOCRProcessor  (block-structured, PaddleOCR)  *)
(* The OCR engine, the PDF rasterizer, the image library and the file      *)
(* system are external: each call into them is a choice among the outcomes *)
(* the call can have (a value, or an exception).  The input path, which    *)
(* both programs hard-code, is a directory or does not exist.              *)
(***************************************************************************)
EXTENDS Integers, Sequences, FiniteSets, TLC

VARIABLES
    impl,             \* which program runs: "tesseract" (main.py) or "paddle" (paddle_ocr.py)
    path_exists,      \* os.path.exists(input_path)
    dir,              \* os.listdir(input_path): the entries, in listing order
    pc,               \* position of main(): "main", "listing", "pdf", "returned"
    passes,           \* iterations of main()'s body begun so far: 0, 1, or 2 for two or more
    idx,              \* entries of dir already taken by the for loop
    processed_files,  \* main.py process_directory
    skipped_files,    \* main.py process_directory
    files_processed,  \* paddle_ocr.py main
    files_failed,     \* paddle_ocr.py main
    status,           \* per entry: Pending / Dispatched / Succeeded / Skipped / Failed / NotAFile
    ndispatch,        \* per entry: calls of process_single_file / process_file in this pass
    fs,               \* the output directory: artifact name -> content
    disk,             \* temporary raster files present in the working directory
    cur,              \* the PDF being processed: pages, position, results so far
    last,             \* the file handled last: what it returned and what was saved
    engine_out,       \* process_image alone: the value ocr.predict returned
    page_out,         \* process_image alone: the value process_image returned
    im_pc,            \* process_image alone: "call" or "ret"
    width, height,    \* resize_image alone: img.size
    max_size,         \* resize_image alone: the limit
    resized,          \* resize_image alone: what was returned
    rs_pc             \* resize_image alone: "call" or "ret"

batch_vars == <<impl, path_exists, dir, pc, passes, idx, processed_files, skipped_files,
                files_processed, files_failed, status, ndispatch, fs, disk, cur, last>>
image_vars == <<engine_out, page_out, im_pc>>
resize_vars == <<width, height, max_size, resized, rs_pc>>
vars == <<batch_vars, image_vars, resize_vars>>

(***************************************************************************)
(* Bounds of the model.                                                    *)
(***************************************************************************)
MaxFiles == 2    \* entries in the input directory
MaxPages == 2    \* pages a PDF rasterizes to
MaxBlocks == 2   \* blocks in one engine result
MaxDim == 8      \* image width and height, resize_image alone
MaxLimit == 4    \* max_size, resize_image alone

DefaultMaxSize == 4000

(***************************************************************************)
(* Python values.                                                          *)
(***************************************************************************)
PyNone == [t |-> "none"]
PyStr(s) == [t |-> "str", chars |-> s]
PyNum(n) == [t |-> "num", n |-> n]
PyList(s) == [t |-> "list", items |-> s]

Max(a, b) == IF a >= b THEN a ELSE b

Whitespace == {" ", "\n"}

\* a variant of StripNonEmpty that takes every text for non-blank
StripNonEmpty_always(chars) == TRUE

\* str.strip() is truthy: some character is not whitespace
StripNonEmpty(chars) == \E i \in 1..Len(chars) : chars[i] \notin Whitespace

RECURSIVE Join(_, _)
\* sep.join(parts), parts a sequence of character sequences
Join(parts, sep) ==
    IF Len(parts) = 0 THEN <<>>
    ELSE IF Len(parts) = 1 THEN parts[1]
    ELSE parts[1] \o sep \o Join(Tail(parts), sep)

(***************************************************************************)
(* resize_image, paddle_ocr.py 26-40.                                      *)
(***************************************************************************)
\* Triples <<max_size, max(width, height), d>> of the sizes used below for which
\* int(d * (max_size / max(width, height))) in IEEE-754 double arithmetic is one
\* less than the exact quotient floor(d * max_size / max(width, height)).
RoundsDown == {<<4000, 4210, 4210>>, <<4000, 4210, 2105>>}

\* int(d * ratio) with ratio = max_size / m
ScaleDim(d, limit, m) ==
    LET q == (d * limit) \div m
    IN  IF <<limit, m, d>> \in RoundsDown THEN q - 1 ELSE q

\* the path returned is the resized copy (changed) or the original
resize_image(w, h, limit) ==
    IF Max(w, h) > limit
      THEN [changed |-> TRUE,
            size |-> <<ScaleDim(w, limit, Max(w, h)), ScaleDim(h, limit, Max(w, h))>>]
      ELSE [changed |-> FALSE, size |-> <<w, h>>]

RealSizes == {<<200, 100>>, <<4000, 4000>>, <<4001, 3000>>, <<8000, 4000>>,
              <<4210, 2105>>, <<8001, 1>>}

ResizeInputs ==
    ((1..MaxDim) \X (1..MaxDim) \X (1..MaxLimit))
    \cup {<<s[1], s[2], DefaultMaxSize>> : s \in RealSizes}

(***************************************************************************)
(* Block parsing of process_image, paddle_ocr.py 56-93.                    *)
(***************************************************************************)
Texts == {PyStr(<<>>), PyStr(<<" ">>), PyStr(<<"a">>), PyStr(<<"b">>), PyNone}
Confidences == {PyNum(1), PyStr(<<"h", "i">>), PyNone}
Box == PyList(<<PyNum(0), PyNum(0)>>)

\* what one element of a page result can be
Blocks ==
    {PyNone, PyList(<<>>), PyList(<<Box>>), PyList(<<Box, PyNone>>),
     PyList(<<Box, PyList(<<>>)>>), PyList(<<PyNone, PyList(<<PyStr(<<"a">>), PyNum(1)>>)>>)}
    \cup {PyList(<<Box, PyList(<<tx>>)>>) : tx \in Texts}
    \cup {PyList(<<Box, PyList(<<tx, c>>)>>) : tx \in Texts, c \in Confidences}

RECURSIVE SeqsUpTo(_, _)
\* the sequences over S of length at most n
SeqsUpTo(S, n) ==
    IF n = 0 THEN {<<>>}
    ELSE LET shorter == SeqsUpTo(S, n - 1)
         IN  shorter \cup {Append(s, x) : s \in {q \in shorter : Len(q) = n - 1}, x \in S}

\* a result of ocr.predict: a list of page results, here the blocks bs in one
\* page result (k = 0) or split after the k-th block into two
EngineResult(bs, k) ==
    IF k = 0 THEN PyList(<<PyList(bs)>>)
    ELSE PyList(<<PyList(SubSeq(bs, 1, k)), PyList(SubSeq(bs, k + 1, Len(bs)))>>)

\* len(v): TypeError unless v is a list
HasLen(v) == v.t = "list"
PyLen(v) == Len(v.items)
\* v[i], 0-based
Item(v, i) == v.items[i + 1]

\* float(v): ValueError for a non-numeric string, TypeError for None
FloatOk(v) == v.t = "num"

\* Lines 63-80 for one block: "skip" when IndexError, ValueError or TypeError is
\* raised (caught at line 78), "abort" when text.strip() raises AttributeError
\* (not caught at line 78), "ok" otherwise.
ParseBlock(block, block_id) ==
    IF ~HasLen(block) THEN [kind |-> "skip"]
    ELSE IF PyLen(block) > 1 /\ ~HasLen(Item(block, 1)) THEN [kind |-> "skip"]
    ELSE
      LET hasText == PyLen(block) > 1 /\ PyLen(Item(block, 1)) > 0
          hasConf == PyLen(block) > 1 /\ PyLen(Item(block, 1)) > 1
          text == IF hasText THEN Item(Item(block, 1), 0) ELSE PyStr(<<>>)
          coordinates == IF PyLen(block) > 0 THEN Item(block, 0) ELSE PyList(<<>>)
      IN  IF hasConf /\ ~FloatOk(Item(Item(block, 1), 1)) THEN [kind |-> "skip"]
          ELSE IF text.t # "str" THEN [kind |-> "abort"]
          ELSE [kind |-> "ok",
                entry |-> [block_id |-> block_id,
                           text |-> text,
                           confidence |-> IF hasConf THEN Item(Item(block, 1), 1) ELSE PyNum(0),
                           coordinates |-> coordinates],
                nonblank |-> StripNonEmpty(text.chars)]

EmptyParse == [aborted |-> FALSE, text_blocks |-> <<>>, full_text_parts |-> <<>>]

RECURSIVE ParsePage(_, _, _)
\* the loop of line 62 over one page result, from block number i (0-based)
ParsePage(page_result, i, acc) ==
    IF acc.aborted \/ i >= PyLen(page_result) THEN acc
    ELSE LET o == ParseBlock(Item(page_result, i), i)
         IN  ParsePage(page_result, i + 1,
                 IF o.kind = "abort" THEN [acc EXCEPT !.aborted = TRUE]
                 ELSE IF o.kind = "skip" THEN acc
                 ELSE [acc EXCEPT !.text_blocks = Append(@, o.entry),
                                  !.full_text_parts =
                                      IF o.nonblank THEN Append(@, o.entry.text.chars) ELSE @])

RECURSIVE ParseResult(_, _, _)
\* the loop of line 60 over the page results, from page result p (0-based)
ParseResult(result, p, acc) ==
    IF acc.aborted \/ p >= PyLen(result) THEN acc
    ELSE ParseResult(result, p + 1,
             IF Item(result, p).t = "none" THEN acc
             ELSE ParsePage(Item(result, p), 0, acc))

\* lines 56-80
ParseBlocks(result) ==
    IF result.t = "none" THEN EmptyParse ELSE ParseResult(result, 0, EmptyParse)

(***************************************************************************)
(* Files.                                                                  *)
(***************************************************************************)
Bases == {"a", "b"}
Exts == {".png", ".PDF", ".txt"}

\* what os.listdir can name: regular files, and one subdirectory
Entries ==
    [base : Bases, ext : Exts, isfile : {TRUE}]
    \cup {[base |-> "sub", ext |-> ".pdf", isfile |-> FALSE]}

NoDup(s) == \A i, j \in 1..Len(s) : i # j => s[i] # s[j]
Listings == {s \in SeqsUpTo(Entries, MaxFiles) : NoDup(s)}

\* str.lower() on the extensions above
Lower(ext) == IF ext = ".PDF" THEN ".pdf" ELSE ext

\* a variant of OCRProcessor_kind with no branch for unsupported extensions
OCRProcessor_kind_all(ext) == IF Lower(ext) = ".pdf" THEN "pdf" ELSE "image"

\* main.py 85-91
OCRProcessor_kind(ext) ==
    IF Lower(ext) \in {".jpg", ".jpeg", ".png", ".bmp", ".tiff", ".gif"} THEN "image"
    ELSE IF Lower(ext) = ".pdf" THEN "pdf"
    ELSE "unsupported"

\* paddle_ocr.py 178-187
PaddleOCRProcessor_kind(ext) ==
    IF Lower(ext) \in {".jpg", ".jpeg", ".png", ".bmp", ".tiff", ".webp"} THEN "image"
    ELSE IF Lower(ext) = ".pdf" THEN "pdf"
    ELSE "unsupported"

Kind(e) == IF impl = "tesseract" THEN OCRProcessor_kind(e.ext) ELSE PaddleOCRProcessor_kind(e.ext)

\* os.path.basename(path)
FileName(e) == [base |-> e.base, ext |-> e.ext]
\* os.path.splitext(os.path.basename(input_filename))[0] + ".json"
OutputName(e) == e.base

\* a raster file in the working directory
ImagePath(e) == [copy |-> FALSE, base |-> e.base, ext |-> e.ext, page |-> 0]
\* f"temp_page_{i+1}_{os.getpid()}.jpg", paddle_ocr.py 126
TempPagePath(n) == [copy |-> FALSE, base |-> "temp_page", ext |-> ".jpg", page |-> n]
\* "resized_" + os.path.basename(image_path), paddle_ocr.py 36
ResizedPath(p) == [p EXCEPT !.copy = TRUE]

(***************************************************************************)
(* Outcomes of the calls into the environment.                             *)
(***************************************************************************)
Raise == [t |-> "raise"]
PageSizes == {<<200, 100>>, <<8000, 4000>>}
\* img.save: written, raised before the file exists, raised with the file begun
SaveOutcomes == {"ok", "raise", "raise_partial"}

GoodBlock == PyList(<<Box, PyList(<<PyStr(<<"a">>), PyNum(1)>>)>>)
BatchEngine == {Raise, PyList(<<PyList(<<GoodBlock>>)>>)}

\* os.remove (paddle_ocr.py 85, 136) is taken to succeed
\* (an outcome that is never consulted is fixed, so that no choice is made twice)
PaddleImageEnvs ==
    {env \in [open : BOOLEAN, size : PageSizes, save : SaveOutcomes, engine : BatchEngine] :
        /\ ~env.open => env.size = <<200, 100>>
        /\ Max(env.size[1], env.size[2]) <= DefaultMaxSize => env.save = "ok"
        /\ (~env.open \/ env.save # "ok") => env.engine = Raise}

\* main.py: Image.open / image_to_string / the engine-version string succeed or raise
TessImageEnvs == [ok : BOOLEAN]

\* open(output_path, 'w') raises; json.dump raises after k items; or all is written
WriteEnvs(n) ==
    {[kind |-> "ok", k |-> 0], [kind |-> "open_fails", k |-> 0]}
    \cup {[kind |-> "dump_fails", k |-> j] : j \in 0..(n - 1)}

(***************************************************************************)
(* process_image.                                                          *)
(***************************************************************************)
\* main.py 13-32
OCRProcessor_process_image(e, env) ==
    IF ~env.ok THEN PyNone
    ELSE [t |-> "dict", filename |-> FileName(e), filetype |-> "image", text |-> <<"a">>]

\* paddle_ocr.py 42-106; d is the set of raster files on disk before the call
PaddleOCRProcessor_process_image(image_path, name, env, d) ==
    LET rz == resize_image(env.size[1], env.size[2], DefaultMaxSize)
        copy == ResizedPath(image_path)
    IN  IF ~env.open THEN [result |-> PyNone, disk |-> d]
        ELSE IF rz.changed /\ env.save # "ok"
          THEN [result |-> PyNone,
                disk |-> IF env.save = "raise_partial" THEN d \cup {copy} ELSE d]
        ELSE
          LET d1 == IF rz.changed THEN d \cup {copy} ELSE d
              parsed == ParseBlocks(env.engine)
          IN  IF env.engine.t = "raise" THEN [result |-> PyNone, disk |-> d1]
              ELSE IF parsed.aborted THEN [result |-> PyNone, disk |-> d1]
              ELSE [result |-> [t |-> "dict",
                                filename |-> name,
                                filetype |-> "image",
                                text_blocks |-> parsed.text_blocks,
                                full_text |-> Join(parsed.full_text_parts, <<"\n">>),
                                total_blocks |-> Len(parsed.text_blocks)],
                    disk |-> d1 \ {copy}]

(***************************************************************************)
(* save_results, main.py 61-79 and paddle_ocr.py 151-170.                  *)
(***************************************************************************)
Absent == [state |-> "absent"]

\* bool(v) for the values process_image and process_pdf return
Truthy(v) == v.t = "dict" \/ (v.t = "list" /\ Len(v.items) > 0)

\* json.dump writes a dict as one object, a list as an array of objects
Items(data) == IF data.t = "list" THEN data.items ELSE <<data>>
Shape(data) == IF data.t = "list" THEN "array" ELSE "object"

save_results(data, e, f, w) ==
    IF ~Truthy(data) THEN [ok |-> FALSE, fs |-> f]
    ELSE IF w.kind = "open_fails" THEN [ok |-> FALSE, fs |-> f]
    ELSE IF w.kind = "dump_fails"
      THEN [ok |-> FALSE,
            fs |-> [f EXCEPT ![OutputName(e)] =
                       [state |-> "partial", shape |-> Shape(data),
                        items |-> SubSeq(Items(data), 1, w.k)]]]
    ELSE [ok |-> TRUE,
          fs |-> [f EXCEPT ![OutputName(e)] =
                     [state |-> "complete", shape |-> Shape(data), items |-> Items(data)]]]

(***************************************************************************)
(* The batch loop: main.py 93-115 and 117-146, paddle_ocr.py 195-241.      *)
(***************************************************************************)
NoCur == [n |-> 0, i |-> 0, results |-> <<>>, dropped |-> {}]
NoLast == [entry |-> 0, kind |-> "none", npages |-> 0, dropped |-> {}, result |-> PyNone,
           save_called |-> FALSE, saved |-> FALSE, before |-> Absent]

\* main.py 104-110: save_results is called when the result is not None
OCRProcessor_save(result, e, f, w) ==
    IF result.t # "none" THEN save_results(result, e, f, w) ELSE [ok |-> FALSE, fs |-> f]

\* paddle_ocr.py 189-193: save_results is called when the result is truthy
PaddleOCRProcessor_save(result, e, f, w) ==
    IF Truthy(result) THEN save_results(result, e, f, w) ELSE [ok |-> FALSE, fs |-> f]

Save(result, e, f, w) ==
    IF impl = "tesseract" THEN OCRProcessor_save(result, e, f, w)
    ELSE PaddleOCRProcessor_save(result, e, f, w)

SaveCalled(result) == IF impl = "tesseract" THEN result.t # "none" ELSE Truthy(result)

\* a variant of NewCounts that does not count a file that was not saved
NewCounts_lost(p, s, ok) == IF ok THEN <<p + 1, s>> ELSE <<p, s>>

\* main.py 104-110 and paddle_ocr.py 221-226: <<processed, skipped or failed>>
NewCounts(p, s, ok) == IF ok THEN <<p + 1, s>> ELSE <<p, s + 1>>

\* the branch a file leaves by: saved, "Skipping unsupported file type" /
\* "Unsupported file type" (main.py 90, paddle_ocr.py 186), or an error
FinalStatus(kind, ok) ==
    IF ok THEN "Succeeded" ELSE IF kind = "unsupported" THEN "Skipped" ELSE "Failed"

Count(ok) ==
    IF impl = "tesseract"
      THEN /\ processed_files' = NewCounts(processed_files, skipped_files, ok)[1]
           /\ skipped_files' = NewCounts(processed_files, skipped_files, ok)[2]
           /\ UNCHANGED <<files_processed, files_failed>>
      ELSE /\ files_processed' = NewCounts(files_processed, files_failed, ok)[1]
           /\ files_failed' = NewCounts(files_processed, files_failed, ok)[2]
           /\ UNCHANGED <<processed_files, skipped_files>>

\* entry i returned `result`: save it, count the file, go on with the next entry
Finish(i, kind, result, npages, dropped) ==
    \E w \in (IF SaveCalled(result) /\ Truthy(result)
                THEN WriteEnvs(Len(Items(result))) ELSE {[kind |-> "ok", k |-> 0]}) :
      LET sv == Save(result, dir[i], fs, w)
      IN  /\ fs' = sv.fs
          /\ Count(sv.ok)
          /\ status' = [status EXCEPT ![i] = FinalStatus(kind, sv.ok)]
          /\ last' = [entry |-> i, kind |-> kind, npages |-> npages, dropped |-> dropped,
                      result |-> result, save_called |-> SaveCalled(result),
                      saved |-> sv.ok, before |-> fs[OutputName(dir[i])]]
          /\ idx' = i
          /\ pc' = "listing"
          /\ cur' = NoCur

Unchanged_env == UNCHANGED <<impl, path_exists, dir, image_vars, resize_vars>>

StartDirectory ==
    /\ pc' = "listing"
    /\ idx' = 0
    /\ processed_files' = 0 /\ skipped_files' = 0
    /\ files_processed' = 0 /\ files_failed' = 0
    /\ status' = [i \in 1..Len(dir) |-> "Pending"]
    /\ ndispatch' = [i \in 1..Len(dir) |-> 0]
    /\ cur' = NoCur
    /\ last' = NoLast
    /\ UNCHANGED <<fs, disk>>

\* main.py 124-146: one iteration of `while True` up to the call of process_directory
OCRProcessor_main ==
    /\ impl = "tesseract" /\ pc = "main"
    /\ passes' = IF passes >= 1 THEN 2 ELSE 1
    /\ IF ~path_exists
         THEN UNCHANGED <<pc, idx, processed_files, skipped_files, files_processed,
                          files_failed, status, ndispatch, fs, disk, cur, last>>
         ELSE StartDirectory
    /\ Unchanged_env

\* paddle_ocr.py 195-213
PaddleOCRProcessor_main ==
    /\ impl = "paddle" /\ pc = "main"
    /\ passes' = IF passes >= 1 THEN 2 ELSE 1
    /\ IF ~path_exists
         THEN /\ pc' = "returned"
              /\ UNCHANGED <<idx, processed_files, skipped_files, files_processed,
                             files_failed, status, ndispatch, fs, disk, cur, last>>
         ELSE \E initOk \in BOOLEAN :
                IF initOk THEN StartDirectory
                ELSE /\ pc' = "returned"
                     /\ UNCHANGED <<idx, processed_files, skipped_files, files_processed,
                                    files_failed, status, ndispatch, fs, disk, cur, last>>
    /\ Unchanged_env

\* os.path.isfile is false: the entry is passed over
SkipNonFile ==
    /\ pc = "listing" /\ idx < Len(dir) /\ ~dir[idx + 1].isfile
    /\ idx' = idx + 1
    /\ status' = [status EXCEPT ![idx + 1] = "NotAFile"]
    /\ UNCHANGED <<pc, passes, processed_files, skipped_files, files_processed, files_failed,
                   ndispatch, fs, disk, cur, last>>
    /\ Unchanged_env

Dispatchable(kind) ==
    /\ pc = "listing" /\ idx < Len(dir) /\ dir[idx + 1].isfile
    /\ Kind(dir[idx + 1]) = kind

\* main.py 89-91 with 109-110; paddle_ocr.py 185-187 with 224-226
DispatchUnsupported ==
    /\ Dispatchable("unsupported")
    /\ ndispatch' = [ndispatch EXCEPT ![idx + 1] = @ + 1]
    /\ Finish(idx + 1, "unsupported", PyNone, 0, {})
    /\ UNCHANGED <<passes, disk>>
    /\ Unchanged_env

\* main.py 85-86 with 102-110
OCRProcessor_image ==
    /\ impl = "tesseract" /\ Dispatchable("image")
    /\ ndispatch' = [ndispatch EXCEPT ![idx + 1] = @ + 1]
    /\ \E env \in TessImageEnvs :
         Finish(idx + 1, "image", OCRProcessor_process_image(dir[idx + 1], env), 0, {})
    /\ UNCHANGED <<passes, disk>>
    /\ Unchanged_env

\* paddle_ocr.py 181-182 with 189-193 and 221-226
PaddleOCRProcessor_image ==
    /\ impl = "paddle" /\ Dispatchable("image")
    /\ ndispatch' = [ndispatch EXCEPT ![idx + 1] = @ + 1]
    /\ \E env \in PaddleImageEnvs :
         LET r == PaddleOCRProcessor_process_image(ImagePath(dir[idx + 1]),
                                                   FileName(dir[idx + 1]), env, disk)
         IN  /\ disk' = r.disk
             /\ Finish(idx + 1, "image", r.result, 0, {})
    /\ UNCHANGED passes
    /\ Unchanged_env

\* convert_from_path raises: main.py 37 with 57-59, paddle_ocr.py 113-118
PdfConvertFails ==
    /\ Dispatchable("pdf")
    /\ ndispatch' = [ndispatch EXCEPT ![idx + 1] = @ + 1]
    /\ Finish(idx + 1, "pdf", PyNone, 0, {})
    /\ UNCHANGED <<passes, disk>>
    /\ Unchanged_env

\* convert_from_path returns n page images: main.py 37-38, paddle_ocr.py 114-120
PdfConvert ==
    /\ Dispatchable("pdf")
    /\ ndispatch' = [ndispatch EXCEPT ![idx + 1] = @ + 1]
    /\ \E n \in 0..MaxPages : cur' = [n |-> n, i |-> 0, results |-> <<>>, dropped |-> {}]
    /\ status' = [status EXCEPT ![idx + 1] = "Dispatched"]
    /\ pc' = "pdf"
    /\ UNCHANGED <<passes, idx, processed_files, skipped_files, files_processed, files_failed,
                   fs, disk, last>>
    /\ Unchanged_env

\* a variant of PageNumber that numbers pages from 0
PageNumber_zero(i) == i

\* the number written into a page's result: main.py 46, paddle_ocr.py 131
PageNumber(i) == i + 1

\* main.py 40-54: one iteration; an exception leaves process_pdf with None (57-59)
OCRProcessor_pdf_page ==
    /\ impl = "tesseract" /\ pc = "pdf" /\ cur.i < cur.n
    /\ \E env \in TessImageEnvs :
         IF env.ok
           THEN /\ cur' = [cur EXCEPT
                             !.i = @ + 1,
                             !.results = Append(@, [t |-> "dict",
                                                    filename |-> FileName(dir[idx + 1]),
                                                    filetype |-> "pdf",
                                                    page_number |-> PageNumber(cur.i),
                                                    text |-> <<"a">>])]
                /\ UNCHANGED <<pc, idx, processed_files, skipped_files, files_processed,
                               files_failed, status, fs, last>>
           ELSE Finish(idx + 1, "pdf", PyNone, cur.n, {})
    /\ UNCHANGED <<passes, ndispatch, disk>>
    /\ Unchanged_env

\* paddle_ocr.py 122-142: one iteration
PaddleOCRProcessor_pdf_page ==
    /\ impl = "paddle" /\ pc = "pdf" /\ cur.i < cur.n
    /\ \E pagesave \in SaveOutcomes, env \in PaddleImageEnvs :
         LET temp_img_path == TempPagePath(PageNumber(cur.i))
             r == PaddleOCRProcessor_process_image(temp_img_path, FileName(temp_img_path),
                                                   env, disk \cup {temp_img_path})
         IN  /\ pagesave # "ok" => env.open = FALSE
             /\ IF pagesave # "ok"
                  THEN \* img.save raised: line 140, the page is passed over
                       /\ disk' = IF pagesave = "raise_partial"
                                    THEN disk \cup {temp_img_path} ELSE disk
                       /\ cur' = [cur EXCEPT !.i = @ + 1,
                                             !.dropped = @ \cup {PageNumber(cur.i)}]
                  ELSE /\ disk' = r.disk \ {temp_img_path}
                       /\ cur' = IF Truthy(r.result)
                                   THEN [cur EXCEPT
                                           !.i = @ + 1,
                                           !.results = Append(@,
                                               [page_number |-> PageNumber(cur.i)]
                                               @@ [r.result EXCEPT !.filetype = "pdf_page"])]
                                   ELSE [cur EXCEPT !.i = @ + 1,
                                                    !.dropped = @ \cup {PageNumber(cur.i)}]
    /\ UNCHANGED <<pc, passes, idx, processed_files, skipped_files, files_processed,
                   files_failed, status, ndispatch, fs, last>>
    /\ Unchanged_env

\* process_pdf returns its list: main.py 56 with 104-110, paddle_ocr.py 144 with 189-193
PdfReturn ==
    /\ pc = "pdf" /\ cur.i = cur.n
    /\ Finish(idx + 1, "pdf", PyList(cur.results), cur.n, cur.dropped)
    /\ UNCHANGED <<passes, ndispatch, disk>>
    /\ Unchanged_env

\* the for loop is exhausted: the summary, main.py 112-115 and back to line 124
\* through 143-144; paddle_ocr.py 228-231 and main returns
Summary ==
    /\ pc = "listing" /\ idx = Len(dir)
    /\ pc' = IF impl = "tesseract" THEN "main" ELSE "returned"
    /\ UNCHANGED <<passes, idx, processed_files, skipped_files, files_processed, files_failed,
                   status, ndispatch, fs, disk, cur, last>>
    /\ Unchanged_env

ImageIdle ==
    /\ engine_out = PyNone /\ page_out = PyNone /\ im_pc = "idle"
ResizeIdle ==
    /\ width = 1 /\ height = 1 /\ max_size = 1 /\ rs_pc = "idle"
    /\ resized = [changed |-> FALSE, size |-> <<1, 1>>]
BatchIdle ==
    /\ impl = "paddle" /\ path_exists = FALSE /\ dir = <<>> /\ pc = "idle"
    /\ passes = 0 /\ idx = 0
    /\ processed_files = 0 /\ skipped_files = 0 /\ files_processed = 0 /\ files_failed = 0
    /\ status = <<>> /\ ndispatch = <<>>
    /\ fs = [b \in Bases |-> Absent] /\ disk = {}
    /\ cur = NoCur /\ last = NoLast

Init ==
    /\ impl \in {"tesseract", "paddle"}
    /\ path_exists \in BOOLEAN
    /\ dir \in (IF path_exists THEN Listings ELSE {<<>>})
    /\ pc = "main"
    /\ passes = 0 /\ idx = 0
    /\ processed_files = 0 /\ skipped_files = 0 /\ files_processed = 0 /\ files_failed = 0
    /\ status = <<>> /\ ndispatch = <<>>
    /\ fs = [b \in Bases |-> Absent] /\ disk = {}
    /\ cur = NoCur /\ last = NoLast
    /\ ImageIdle /\ ResizeIdle

Next ==
    \/ OCRProcessor_main
    \/ PaddleOCRProcessor_main
    \/ SkipNonFile
    \/ DispatchUnsupported
    \/ OCRProcessor_image
    \/ PaddleOCRProcessor_image
    \/ PdfConvertFails
    \/ PdfConvert
    \/ OCRProcessor_pdf_page
    \/ PaddleOCRProcessor_pdf_page
    \/ PdfReturn
    \/ Summary

Spec == Init /\ [][Next]_vars

(***************************************************************************)
(* process_image on its own: every engine result, one call.                *)
(***************************************************************************)
InitImage ==
    /\ BatchIdle /\ ResizeIdle
    /\ \/ engine_out \in {Raise, PyNone, PyList(<<PyNone>>)}
       \/ \E n \in 0..MaxBlocks : \E bs \in [1..n -> Blocks], k \in 0..Max(n - 1, 0) :
             engine_out = EngineResult(bs, k)
    /\ page_out = PyNone
    /\ im_pc = "call"

process_image_call ==
    /\ im_pc = "call"
    /\ page_out' = PaddleOCRProcessor_process_image(
                       TempPagePath(1), FileName(TempPagePath(1)),
                       [open |-> TRUE, size |-> <<200, 100>>, save |-> "ok",
                        engine |-> engine_out], {}).result
    /\ im_pc' = "ret"
    /\ UNCHANGED <<engine_out, batch_vars, resize_vars>>

NextImage == process_image_call

SpecImage == InitImage /\ [][NextImage]_vars

(***************************************************************************)
(* resize_image on its own: every size and limit, one call.                *)
(***************************************************************************)
InitResize ==
    /\ BatchIdle /\ ImageIdle
    /\ \E in \in ResizeInputs : width = in[1] /\ height = in[2] /\ max_size = in[3]
    /\ resized = [changed |-> FALSE, size |-> <<0, 0>>]
    /\ rs_pc = "call"

resize_image_call ==
    /\ rs_pc = "call"
    /\ resized' = resize_image(width, height, max_size)
    /\ rs_pc' = "ret"
    /\ UNCHANGED <<width, height, max_size, batch_vars, image_vars>>

NextResize == resize_image_call

SpecResize == InitResize /\ [][NextResize]_vars

(***************************************************************************)
(* Properties.                                                             *)
(***************************************************************************)
InBatch == pc \in {"listing", "pdf"}
\* the for loop has taken every entry
LoopDone == pc = "listing" /\ idx = Len(dir)
Processed == IF impl = "tesseract" THEN processed_files ELSE files_processed
NotProcessed == IF impl = "tesseract" THEN skipped_files ELSE files_failed
WithStatus(st) == {i \in 1..Len(status) : status[i] = st}
LastArtifact == fs[OutputName(dir[last.entry])]
PageNumbers(items) == [k \in 1..Len(items) |-> items[k].page_number]

C2_EveryFileCounted ==
    InBatch =>
        /\ DOMAIN status = 1..Len(dir) /\ DOMAIN ndispatch = 1..Len(dir)
        /\ \A i \in 1..Len(dir) :
             IF i <= idx
               THEN IF dir[i].isfile
                      THEN /\ ndispatch[i] = 1
                           /\ status[i] \in {"Succeeded", "Skipped", "Failed"}
                      ELSE ndispatch[i] = 0 /\ status[i] = "NotAFile"
               ELSE IF pc = "pdf" /\ i = idx + 1
                      THEN ndispatch[i] = 1 /\ status[i] = "Dispatched"
                      ELSE ndispatch[i] = 0 /\ status[i] = "Pending"
        /\ Processed + NotProcessed = Cardinality({i \in 1..idx : dir[i].isfile})
        /\ LoopDone =>
             /\ idx = Len(dir)
             /\ Processed + NotProcessed = Cardinality({i \in 1..Len(dir) : dir[i].isfile})

C2_Witness ==
    /\ LoopDone /\ Len(dir) = 2
    /\ status[1] = "Failed" /\ status[2] = "Succeeded"
    /\ Processed = 1 /\ NotProcessed = 1

\* C3 as stated: an unsupported file is counted separately from failures: the
\* count of failed files (files_failed) is not incremented by an unsupported file,
\* and the count of skipped files (skipped_files) is not incremented by a supported
\* file that failed.
C3_Original ==
    InBatch =>
        /\ impl = "paddle" => files_failed = Cardinality(WithStatus("Failed"))
        /\ impl = "tesseract" => skipped_files = Cardinality(WithStatus("Skipped"))

\* C3 as amended: a file with an unsupported extension (.txt) is skipped, produces
\* no artifact and is never counted as processed, but it is not counted separately
\* from failures: each program keeps one counter of the files that were not
\* processed, and an unsupported file and a failed supported file each add one to it.
C3_SkippedAggregate ==
    InBatch =>
        /\ \A i \in 1..idx : (dir[i].isfile /\ dir[i].ext = ".txt") => status[i] = "Skipped"
        /\ last.kind = "unsupported" =>
              /\ dir[last.entry].ext = ".txt"
              /\ ~last.save_called /\ ~last.saved
              /\ LastArtifact = last.before
        /\ Processed = Cardinality(WithStatus("Succeeded"))
        /\ NotProcessed = Cardinality(WithStatus("Skipped")) + Cardinality(WithStatus("Failed"))

C3_Witness ==
    /\ LoopDone /\ Len(dir) = 2
    /\ status[1] = "Skipped" /\ status[2] = "Failed"
    /\ Processed = 0 /\ NotProcessed = 2

\* C4: save_results is all-or-nothing: after it returns, the artifact either holds
\* the complete serialized results (and True was returned) or is exactly as it was
\* before the call (and False was returned).
C4_AllOrNothing ==
    (InBatch /\ last.save_called) =>
        IF last.saved
          THEN /\ LastArtifact.state = "complete"
               /\ LastArtifact.items = Items(last.result)
          ELSE LastArtifact = last.before

\* C5: after PaddleOCRProcessor.process_pdf has returned, no temporary raster file
\* of a page (temp_page_<i>_<pid>.jpg, or its resized_ copy) remains on disk.
C5_NoTempLeft ==
    (impl = "paddle" /\ pc = "listing" /\ last.kind = "pdf") =>
        \A f \in disk : f.base # "temp_page"

\* C6: after a batch run every file counted as processed has its own artifact,
\* named by its base name and holding that file's results, so the number of
\* distinct artifacts written equals the processed count.
C6_OnePerFile ==
    LoopDone =>
        /\ \A i \in WithStatus("Succeeded") : fs[OutputName(dir[i])].state = "complete"
        /\ \A i, j \in WithStatus("Succeeded") :
             i # j => OutputName(dir[i]) # OutputName(dir[j])
        /\ Cardinality({OutputName(dir[i]) : i \in WithStatus("Succeeded")}) = Processed

\* C10: a run of main.py's main() makes at most one pass over its input (and then
\* returns, as paddle_ocr.py's main() does).
C10_AtMostOnePass == passes <= 1

(***************************************************************************)
(* Properties of process_image on its own.                                 *)
(***************************************************************************)
RECURSIVE Flatten(_)
\* the blocks of all page results, in order
Flatten(page_results) ==
    IF Len(page_results) = 0 THEN <<>>
    ELSE (IF Head(page_results).t = "list" THEN Head(page_results).items ELSE <<>>)
         \o Flatten(Tail(page_results))

EngineBlocks == IF engine_out.t = "list" THEN Flatten(engine_out.items) ELSE <<>>

\* the text of a block, where it has one
HasText(b) ==
    /\ b.t = "list" /\ Len(b.items) > 1
    /\ b.items[2].t = "list" /\ Len(b.items[2].items) > 0
    /\ b.items[2].items[1].t = "str"
TextOf(b) == b.items[2].items[1].chars
NonBlank(chars) == \E i \in 1..Len(chars) : chars[i] # " " /\ chars[i] # "\n"
NonBlankBlock(b) == HasText(b) /\ NonBlank(TextOf(b))

\* the block is read without IndexError, ValueError or TypeError
ReadsWithoutError(b) ==
    /\ b.t = "list"
    /\ Len(b.items) > 1 =>
         /\ b.items[2].t = "list"
         /\ Len(b.items[2].items) > 1 => b.items[2].items[2].t = "num"

\* the block has geometry, a text that is a string, and a numeric confidence
WellFormed(b) ==
    /\ b.t = "list" /\ Len(b.items) > 1
    /\ b.items[1].t = "list"
    /\ b.items[2].t = "list" /\ Len(b.items[2].items) > 1
    /\ b.items[2].items[1].t = "str"
    /\ b.items[2].items[2].t = "num"

TextsOf(blocks) == [k \in 1..Len(blocks) |-> TextOf(blocks[k])]
RecordedTexts == [k \in 1..Len(page_out.text_blocks) |-> page_out.text_blocks[k].text.chars]

\* C7 as stated: for every sequence of blocks the engine returns, full_text is the
\* newline-join, in block order, of the texts of exactly those blocks whose text is
\* not blank.
C7_Original ==
    (im_pc = "ret" /\ page_out.t = "dict") =>
        page_out.full_text = Join(TextsOf(SelectSeq(EngineBlocks, NonBlankBlock)), <<"\n">>)

\* C7 as amended: full_text is the newline-join, in block order, of the texts of
\* exactly those blocks that were read without error and whose text is not blank;
\* the blocks read without error are the ones recorded in text_blocks, so no block
\* contributes to one and not the other (a block with a non-blank text and a
\* non-numeric confidence is in neither).
C7_FullText ==
    (im_pc = "ret" /\ page_out.t = "dict") =>
        LET read == SelectSeq(EngineBlocks, ReadsWithoutError)
            textOrEmpty(b) == IF HasText(b) THEN TextOf(b) ELSE <<>>
            joined(b) == ReadsWithoutError(b) /\ NonBlankBlock(b)
        IN  /\ RecordedTexts = [k \in 1..Len(read) |-> textOrEmpty(read[k])]
            /\ page_out.full_text = Join(TextsOf(SelectSeq(EngineBlocks, joined)), <<"\n">>)
            /\ page_out.full_text = Join(SelectSeq(RecordedTexts, NonBlank), <<"\n">>)
            /\ page_out.total_blocks = Len(page_out.text_blocks)

C7_Witness ==
    /\ im_pc = "ret" /\ page_out.t = "dict"
    /\ Len(EngineBlocks) = 2
    /\ page_out.full_text = <<"b", "\n", "a">>
    /\ Len(page_out.text_blocks) = 2

\* C8: a malformed block (missing geometry, missing or non-numeric confidence,
\* missing or non-string text) is skipped and never aborts the page: whenever the
\* engine returned, process_image returns a result, and its text_blocks are exactly
\* the well-formed blocks.
C8_MalformedSkipped ==
    (im_pc = "ret" /\ engine_out.t # "raise") =>
        /\ page_out.t = "dict"
        /\ RecordedTexts = TextsOf(SelectSeq(EngineBlocks, WellFormed))

(***************************************************************************)
(* Properties of resize_image on its own.                                  *)
(***************************************************************************)
Abs(x) == IF x >= 0 THEN x ELSE -x
Min(a, b) == IF a <= b THEN a ELSE b

\* C9: when max(W, H) > L the new larger dimension equals L within rounding, both
\* new dimensions are at least 1, and the smaller new dimension differs from
\* min(W, H) * L / max(W, H) by less than 1; otherwise the page is unchanged.
C9_Resize ==
    rs_pc = "ret" =>
        LET big == Max(width, height)
            small == Min(width, height)
            newBig == Max(resized.size[1], resized.size[2])
            newSmall == Min(resized.size[1], resized.size[2])
        IN  IF big > max_size
              THEN /\ resized.changed
                   /\ Abs(newBig - max_size) <= 1
                   /\ resized.size[1] >= 1 /\ resized.size[2] >= 1
                   /\ Abs(newSmall * big - small * max_size) < big
              ELSE ~resized.changed /\ resized.size = <<width, height>>

====
